---- MODULE Spec2Model ----
(***************************************************************************)
(* Model of the RDS exporter (rds.go): the DBMaxConnections table, the     *)
(* descriptors built by NewRDSExporter, Describe, and Collect, which pages *)
(* through DescribeDBInstances and then writes nine observations per       *)
(* instance to its channel.                                                *)
(***************************************************************************)
EXTENDS Integers, Sequences, FiniteSets, TLC

\* ------------------------------------------------------------------ bounds
\* Calls of one poll after which the upstream has ended the listing: the last of
\* them is answered with an error or with a page without marker.
MaxPages == 2
\* Polls (Collect invocations) started in one behaviour.
MaxPolls == 2
\* Largest AllocatedStorage, in GiB, of the storage-conversion specification.
MaxGiB == 65536

\* ------------------------------------------------------------ static data
Nil == "nil"
Region == "us-east-1"

DBMaxConnections ==
    ("db.t2.small" :> ("default" :> 150 @@ "default.mysql5.7" :> 150))
 @@ ("db.m5.2xlarge" :> ("default" :> 3429 @@ "default.postgres10" :> 3429
                          @@ "default.postgres11" :> 3429))
 @@ ("db.m5.large" :> ("default" :> 823 @@ "default.postgres10" :> 823
                        @@ "default.postgres11" :> 823))

\* The descriptors of NewRDSExporter: metric name and label names.
Descs ==
    [AllocatedStorage |-> [name |-> "rds_allocatedstorage",
                           labels |-> <<"aws_region", "dbinstance_identifier">>],
     DBInstanceClass |-> [name |-> "rds_dbinstanceclass",
                          labels |-> <<"aws_region", "dbinstance_identifier", "instance_class">>],
     DBInstanceStatus |-> [name |-> "rds_dbinstancestatus",
                           labels |-> <<"aws_region", "dbinstance_identifier", "instance_status">>],
     EngineVersion |-> [name |-> "rds_engineversion",
                        labels |-> <<"aws_region", "dbinstance_identifier", "engine", "engine_version">>],
     LatestRestorableTime |-> [name |-> "rds_latestrestorabletime",
                               labels |-> <<"aws_region", "dbinstance_identifier">>],
     MaxConnections |-> [name |-> "rds_maxconnections",
                         labels |-> <<"aws_region", "dbinstance_identifier">>],
     MaxConnectionsMappingError |-> [name |-> "rds_maxconnections_error",
                                     labels |-> <<"aws_region", "dbinstance_identifier", "instance_class">>],
     PubliclyAccessible |-> [name |-> "rds_publiclyaccessible",
                             labels |-> <<"aws_region", "dbinstance_identifier">>],
     StorageEncrypted |-> [name |-> "rds_storageencrypted",
                           labels |-> <<"aws_region", "dbinstance_identifier">>]]

\* What Describe writes to its channel, in order.
Describe ==
    << Descs.AllocatedStorage, Descs.DBInstanceClass, Descs.DBInstanceStatus,
       Descs.EngineVersion, Descs.LatestRestorableTime, Descs.MaxConnections,
       Descs.MaxConnectionsMappingError, Descs.PubliclyAccessible,
       Descs.StorageEncrypted >>

\* -------------------------------------------------- 64-bit integer arithmetic
\* An int64 is four 16-bit limbs, least significant first (two's complement).
Limb == 2^16

ToInt64(g) == << g % Limb, (g \div Limb) % Limb, 0, 0 >>

\* w * 1024 in a word of the width of w: the carry out of the top limb is lost.
RECURSIVE MulCarry(_, _, _, _)
MulCarry(w, k, i, carry) ==
    IF i > Len(w) THEN << >>
    ELSE LET t == w[i] * k + carry
         IN  << t % Limb >> \o MulCarry(w, k, i + 1, t \div Limb)

\* Faulty variant: the product kept in 32 bits.
Mul1024Narrow(w) == MulCarry(SubSeq(w, 1, 2), 1024, 1, 0) \o << 0, 0 >>
Mul1024(w) == MulCarry(w, 1024, 1, 0)

\* *instance.AllocatedStorage*1024*1024*1024, evaluated left to right.
StorageBytes(g) == Mul1024(Mul1024(Mul1024(ToInt64(g))))

RECURSIVE BitLen16(_)
BitLen16(n) == IF n = 0 THEN 0 ELSE 1 + BitLen16(n \div 2)

BitLen(m) ==
    IF m[4] # 0 THEN 48 + BitLen16(m[4])
    ELSE IF m[3] # 0 THEN 32 + BitLen16(m[3])
    ELSE IF m[2] # 0 THEN 16 + BitLen16(m[2])
    ELSE BitLen16(m[1])

RECURSIVE AddCarry(_, _, _)
AddCarry(m, i, carry) ==
    IF i > Len(m) THEN << >>
    ELSE LET t == m[i] + carry
         IN  << t % Limb >> \o AddCarry(m, i + 1, t \div Limb)

IsNegative(w) == w[4] >= 2^15

\* |w| of a two's complement word: invert and add one when the sign bit is set.
Magnitude(w) ==
    IF IsNegative(w)
    THEN AddCarry([i \in 1..4 |-> (Limb - 1) - w[i]], 1, 1)
    ELSE w

\* Round a 64-bit magnitude to 53 significant bits, ties to even.
Round53(m) ==
    LET h == BitLen(m)
    IN  IF h <= 53 THEN m
        ELSE LET s == h - 53
                 low == m[1] % (2^s)
                 half == 2^(s - 1)
                 lsb == (m[1] \div (2^s)) % 2
                 up == low > half \/ (low = half /\ lsb = 1)
                 base == << m[1] - low, m[2], m[3], m[4] >>
             IN  IF up THEN << (base[1] + 2^s) % Limb >>
                            \o AddCarry(SubSeq(base, 2, 4), 1, (base[1] + 2^s) \div Limb)
                 ELSE base

\* float64(int64): sign and magnitude, the magnitude rounded to the significand.
Float64(w) == [neg |-> IsNegative(w), mag |-> Round53(Magnitude(w))]

\* ------------------------------------------------------- upstream responses
\* DBInstance records the API may return.  A pointer field that the API may
\* leave out is a sequence of length zero or one.
Inst(id, class, groups, public, encrypted, storage, status, restorable) ==
    [id |-> id, class |-> class, groups |-> groups, public |-> public,
     encrypted |-> encrypted, storage |-> storage, status |-> status,
     engine |-> "postgres", engineVersion |-> "11.5", restorable |-> restorable]

IHit == Inst("a", "db.t2.small", <<"default">>, TRUE, FALSE, 20, "available", <<1500>>)
IUnknownClass == Inst("b", "db.unknown.type", <<"default">>, FALSE, TRUE, 0, "stopped", <<1600>>)
IUnknownGroup == Inst("c", "db.m5.large", <<"custom.pg", "default">>, TRUE, TRUE, MaxGiB, "available", <<1700>>)
INoGroups == Inst("d", "db.m5.2xlarge", << >>, FALSE, FALSE, 100, "available", <<1800>>)
INoGroupsUnknown == Inst("e", "db.unknown.type", << >>, FALSE, TRUE, 5, "available", <<1900>>)
INoRestorable == Inst("f", "db.m5.2xlarge", <<"default.postgres11">>, FALSE, TRUE, 50, "creating", << >>)

\* result.DBInstances of one response.
Pages ==
    { << >>, <<IHit, IUnknownClass>>, <<IUnknownGroup>>, <<INoGroups>>,
      <<INoGroupsUnknown, IHit>>, <<INoRestorable>> }

\* result.Marker of a response that announces a further page.
Markers == {"m1", "m2"}

\* The two overlapping polls are served different pages and different markers.
PollIds == {1, 2}
OverlapPages(p) == IF p = 1 THEN { <<IHit>> } ELSE { <<IUnknownClass>> }
OverlapMarkers(p) == IF p = 1 THEN {"m1"} ELSE {"m2"}

\* ------------------------------------------------------------------- state
VARIABLES
    requests,        \* exporterMetrics: DescribeDBInstances calls attempted
    errors,          \* exporterMetrics: calls that failed
    pc,              \* pc[p]: where Collect invocation p stands
    input,           \* input[p]: input.Marker of invocation p
    instances,       \* instances[p]: the accumulated []*rds.DBInstance
    idx,             \* idx[p]: position of the range loop in instances[p]
    maxConnections,  \* maxConnections[p]: the loop body's local
    ch,              \* ch[p]: what invocation p has written to its channel
    calls,           \* calls[p]: the marker of each call p issued, in order
    resps,           \* resps[p]: the response to each answered call of p
    base,            \* base[p]: the counters when invocation p started
    attempted,       \* calls the upstream received, over all polls
    failed,          \* calls the upstream failed, over all polls
    started          \* Collect invocations started so far

vars == << requests, errors, pc, input, instances, idx, maxConnections, ch,
           calls, resps, base, attempted, failed, started >>

counters == << requests, errors, attempted, failed >>

Fetching == {"loop", "wait"}
Emitting == {"lookup", "public", "encrypted", "maxconn", "storage", "status",
             "engine", "class", "restorable"}
Ended == {"done", "failed", "panicked"}
Returned == {"done", "failed"}

Init ==
    /\ requests = 0
    /\ errors = 0
    /\ pc = [p \in PollIds |-> "idle"]
    /\ input = [p \in PollIds |-> Nil]
    /\ instances = [p \in PollIds |-> << >>]
    /\ idx = [p \in PollIds |-> 0]
    /\ maxConnections = [p \in PollIds |-> 0]
    /\ ch = [p \in PollIds |-> << >>]
    /\ calls = [p \in PollIds |-> << >>]
    /\ resps = [p \in PollIds |-> << >>]
    /\ base = [p \in PollIds |-> [requests |-> 0, errors |-> 0]]
    /\ attempted = 0
    /\ failed = 0
    /\ started = 0

\* ------------------------------------------------------------ the counters
IncrementRequests(n) == n + 1
IncrementErrors(n) == n + 1

\* ------------------------------------------------------------------ Collect
\* The value the range loop reaches after the instance at position i.
AfterInstance(insts, i) == IF i < Len(insts) THEN "lookup" ELSE "done"

\* Collect is invoked: svc, an input without marker, no instances, an empty channel.
Start(p) ==
    /\ pc[p] \in {"idle"} \cup Returned
    /\ started < MaxPolls
    /\ started' = started + 1
    /\ pc' = [pc EXCEPT ![p] = "loop"]
    /\ input' = [input EXCEPT ![p] = Nil]
    /\ instances' = [instances EXCEPT ![p] = << >>]
    /\ idx' = [idx EXCEPT ![p] = 0]
    /\ maxConnections' = [maxConnections EXCEPT ![p] = 0]
    /\ ch' = [ch EXCEPT ![p] = << >>]
    /\ calls' = [calls EXCEPT ![p] = << >>]
    /\ resps' = [resps EXCEPT ![p] = << >>]
    /\ base' = [base EXCEPT ![p] = [requests |-> requests, errors |-> errors]]
    /\ UNCHANGED counters

\* The marker a call of invocation p carries: its own input.Marker.
\* Faulty variant: the input kept in one place shared by all invocations.
SharedInputMarker(p) == input[1]
InputMarker(p) == input[p]

\* Top of the for loop: count the request and issue DescribeDBInstances(input).
IssueCall(p) ==
    /\ pc[p] = "loop"
    /\ requests' = IncrementRequests(requests)
    /\ attempted' = attempted + 1
    /\ calls' = [calls EXCEPT ![p] = Append(@, InputMarker(p))]
    /\ pc' = [pc EXCEPT ![p] = "wait"]
    /\ UNCHANGED << errors, input, instances, idx, maxConnections, ch, resps,
                    base, failed, started >>

\* The counters after a failed call.
\* Faulty variant: the failure is not counted.
ErrorsAfterFailureUncounted(e) == e
ErrorsAfterFailure(e) == IncrementErrors(e)

\* Where Collect goes after a failed call: it returns.
\* Faulty variant: the loop goes on after a failure.
AfterFailureContinue == "loop"
AfterFailure == "failed"

\* err != nil: log, count the error, return.
CallFails(p) ==
    /\ pc[p] = "wait"
    /\ Len(calls[p]) <= MaxPages
    /\ resps' = [resps EXCEPT ![p] = Append(@, [err |-> TRUE, page |-> << >>, marker |-> Nil])]
    /\ errors' = ErrorsAfterFailure(errors)
    /\ failed' = failed + 1
    /\ pc' = [pc EXCEPT ![p] = AfterFailure]
    /\ UNCHANGED << requests, input, instances, idx, maxConnections, ch, calls,
                    base, attempted, started >>

\* instances = append(instances, result.DBInstances...)
Accumulate(insts, page) == insts \o page

\* input.Marker = result.Marker
\* Faulty variant: the marker is not passed forward.
NextMarkerDropped(mk) == Nil
NextMarker(mk) == mk

\* if result.Marker == nil { break }
LoopEnds(mk) == mk = Nil

\* err == nil: accumulate the page, keep the marker, leave the loop without one.
CallSucceeds(p, page, mk) ==
    /\ pc[p] = "wait"
    /\ Len(calls[p]) <= MaxPages
    /\ mk # Nil => Len(calls[p]) < MaxPages
    /\ resps' = [resps EXCEPT ![p] = Append(@, [err |-> FALSE, page |-> page, marker |-> mk])]
    /\ instances' = [instances EXCEPT ![p] = Accumulate(@, page)]
    /\ input' = [input EXCEPT ![p] = NextMarker(mk)]
    /\ IF LoopEnds(mk)
       THEN /\ pc' = [pc EXCEPT ![p] = AfterInstance(instances'[p], 0)]
            /\ idx' = [idx EXCEPT ![p] = IF instances'[p] = << >> THEN 0 ELSE 1]
       ELSE /\ pc' = [pc EXCEPT ![p] = "loop"]
            /\ UNCHANGED idx
    /\ UNCHANGED << requests, errors, maxConnections, ch, calls, base,
                    attempted, failed, started >>

\* prometheus.MustNewConstMetric panics unless it is given one label value per
\* label name of the descriptor.
LabelsFit(desc, labelValues) == Len(labelValues) = Len(desc.labels)

Metric(desc, valueType, value, labelValues) ==
    [metric |-> desc.name, type |-> valueType, value |-> value, labels |-> labelValues]

\* ch <- prometheus.MustNewConstMetric(...), then on to `next`.
Send(p, desc, valueType, value, labelValues, next) ==
    IF LabelsFit(desc, labelValues)
    THEN /\ ch' = [ch EXCEPT ![p] = Append(@, Metric(desc, valueType, value, labelValues))]
         /\ pc' = [pc EXCEPT ![p] = next]
    ELSE /\ pc' = [pc EXCEPT ![p] = "panicked"]
         /\ UNCHANGED ch

\* The instance the range loop hands to its body at position i.
\* Faulty variant: the list is walked backwards.
RangeInstanceReversed(insts, i) == insts[Len(insts) + 1 - i]
RangeInstance(insts, i) == insts[i]

Current(p) == RangeInstance(instances[p], idx[p])

\* *instance.DBParameterGroups[0].DBParameterGroupName
ParameterGroupName(inst) == inst.groups[1]

\* 1 for true, 0 for false: the two branches of each if/else on a flag.
BoolValue(b) == IF b THEN 1 ELSE 0

\* The two-level lookup in DBMaxConnections and the maxconnections_error
\* observation.  Indexing DBParameterGroups[0] of an instance without parameter
\* groups panics; it is evaluated only when the class is in the table.
LookupMaxConnections(p) ==
    /\ pc[p] = "lookup"
    /\ LET inst == Current(p)
           labelValues == << Region, inst.id, inst.class >>
       IN  IF inst.class \in DOMAIN DBMaxConnections
           THEN IF inst.groups = << >>
                THEN /\ pc' = [pc EXCEPT ![p] = "panicked"]
                     /\ UNCHANGED << ch, maxConnections >>
                ELSE IF ParameterGroupName(inst) \in DOMAIN DBMaxConnections[inst.class]
                     THEN /\ maxConnections' = [maxConnections EXCEPT ![p] =
                                  DBMaxConnections[inst.class][ParameterGroupName(inst)]]
                          /\ Send(p, Descs.MaxConnectionsMappingError, "gauge", 0,
                                  labelValues, "public")
                     ELSE /\ maxConnections' = [maxConnections EXCEPT ![p] = 0]
                          /\ Send(p, Descs.MaxConnectionsMappingError, "gauge", 1,
                                  labelValues, "public")
           ELSE /\ maxConnections' = [maxConnections EXCEPT ![p] = 0]
                /\ Send(p, Descs.MaxConnectionsMappingError, "gauge", 1,
                        labelValues, "public")
    /\ UNCHANGED << requests, errors, input, instances, idx, calls, resps, base,
                    attempted, failed, started >>

EmitPubliclyAccessible(p) ==
    /\ pc[p] = "public"
    /\ Send(p, Descs.PubliclyAccessible, "gauge", BoolValue(Current(p).public),
            << Region, Current(p).id >>, "encrypted")
    /\ UNCHANGED << requests, errors, input, instances, idx, maxConnections,
                    calls, resps, base, attempted, failed, started >>

EmitStorageEncrypted(p) ==
    /\ pc[p] = "encrypted"
    /\ Send(p, Descs.StorageEncrypted, "gauge", BoolValue(Current(p).encrypted),
            << Region, Current(p).id >>, "maxconn")
    /\ UNCHANGED << requests, errors, input, instances, idx, maxConnections,
                    calls, resps, base, attempted, failed, started >>

EmitMaxConnections(p) ==
    /\ pc[p] = "maxconn"
    /\ Send(p, Descs.MaxConnections, "gauge", maxConnections[p],
            << Region, Current(p).id >>, "storage")
    /\ UNCHANGED << requests, errors, input, instances, idx, maxConnections,
                    calls, resps, base, attempted, failed, started >>

EmitAllocatedStorage(p) ==
    /\ pc[p] = "storage"
    /\ Send(p, Descs.AllocatedStorage, "gauge", Float64(StorageBytes(Current(p).storage)),
            << Region, Current(p).id >>, "status")
    /\ UNCHANGED << requests, errors, input, instances, idx, maxConnections,
                    calls, resps, base, attempted, failed, started >>

EmitDBInstanceStatus(p) ==
    /\ pc[p] = "status"
    /\ Send(p, Descs.DBInstanceStatus, "gauge", 1,
            << Region, Current(p).id, Current(p).status >>, "engine")
    /\ UNCHANGED << requests, errors, input, instances, idx, maxConnections,
                    calls, resps, base, attempted, failed, started >>

EmitEngineVersion(p) ==
    /\ pc[p] = "engine"
    /\ Send(p, Descs.EngineVersion, "gauge", 1,
            << Region, Current(p).id, Current(p).engine, Current(p).engineVersion >>, "class")
    /\ UNCHANGED << requests, errors, input, instances, idx, maxConnections,
                    calls, resps, base, attempted, failed, started >>

EmitDBInstanceClass(p) ==
    /\ pc[p] = "class"
    /\ Send(p, Descs.DBInstanceClass, "gauge", 1,
            << Region, Current(p).id, Current(p).class >>, "restorable")
    /\ UNCHANGED << requests, errors, input, instances, idx, maxConnections,
                    calls, resps, base, attempted, failed, started >>

\* instance.LatestRestorableTime.Unix() dereferences the pointer: it panics when
\* the API left the field out.  After it the range loop moves on, or Collect returns.
EmitLatestRestorableTime(p) ==
    /\ pc[p] = "restorable"
    /\ IF Current(p).restorable = << >>
       THEN /\ pc' = [pc EXCEPT ![p] = "panicked"]
            /\ UNCHANGED << ch, idx >>
       ELSE /\ Send(p, Descs.LatestRestorableTime, "counter", Current(p).restorable[1],
                    << Region, Current(p).id >>, AfterInstance(instances[p], idx[p]))
            /\ idx' = [idx EXCEPT ![p] = IF pc'[p] = "lookup" THEN @ + 1 ELSE @]
    /\ UNCHANGED << requests, errors, input, instances, maxConnections,
                    calls, resps, base, attempted, failed, started >>

\* One step of the range loop's body.
Emit(p) ==
    \/ LookupMaxConnections(p)
    \/ EmitPubliclyAccessible(p)
    \/ EmitStorageEncrypted(p)
    \/ EmitMaxConnections(p)
    \/ EmitAllocatedStorage(p)
    \/ EmitDBInstanceStatus(p)
    \/ EmitEngineVersion(p)
    \/ EmitDBInstanceClass(p)
    \/ EmitLatestRestorableTime(p)

\* One step of an invocation that has started, served from the given pages and markers.
Step(p, pages, markers) ==
    \/ IssueCall(p)
    \/ CallFails(p)
    \/ \E page \in pages, mk \in markers \cup {Nil} : CallSucceeds(p, page, mk)
    \/ Emit(p)

\* ----------------------------------------------------------- specifications
\* Polls one after the other, on every page of Pages.
Next == Start(1) \/ Step(1, Pages, Markers)

Spec == Init /\ [][Next]_vars

\* The same, with every call answered and the invocation scheduled.
SpecLive == Spec /\ WF_vars(Step(1, Pages, Markers))

\* Two invocations on the same exporter, their steps interleaved.
NextOverlap ==
    \E p \in PollIds : Start(p) \/ Step(p, OverlapPages(p), OverlapMarkers(p))

SpecOverlap == Init /\ [][NextOverlap]_vars

\* A poll whose first call is in flight and is answered with one instance of
\* every AllocatedStorage from 0 to MaxGiB.
WithStorage(g) == [IHit EXCEPT !.storage = g]

InitStorage ==
    /\ requests = 1
    /\ errors = 0
    /\ pc = [p \in PollIds |-> IF p = 1 THEN "wait" ELSE "idle"]
    /\ input = [p \in PollIds |-> Nil]
    /\ instances = [p \in PollIds |-> << >>]
    /\ idx = [p \in PollIds |-> 0]
    /\ maxConnections = [p \in PollIds |-> 0]
    /\ ch = [p \in PollIds |-> << >>]
    /\ calls = [p \in PollIds |-> IF p = 1 THEN << Nil >> ELSE << >>]
    /\ resps = [p \in PollIds |-> << >>]
    /\ base = [p \in PollIds |-> [requests |-> 0, errors |-> 0]]
    /\ attempted = 1
    /\ failed = 0
    /\ started = 1

NextStorage ==
    \/ /\ pc[1] = "wait"
       /\ \E g \in 0..MaxGiB : CallSucceeds(1, << WithStorage(g) >>, Nil)
    \/ Emit(1)

SpecStorage == InitStorage /\ [][NextStorage]_vars

\* ------------------------------------------------- what the claims speak of
RECURSIVE FlattenPages(_)
FlattenPages(rs) == IF rs = << >> THEN << >> ELSE rs[1].page \o FlattenPages(Tail(rs))

SomeCallFailed(p) == \E k \in 1..Len(resps[p]) : resps[p][k].err

PerInstance == Len(Describe)

\* The instance position and the place within it of the k-th observation.
PositionOf(k) == ((k - 1) \div PerInstance) + 1
PlaceOf(k) == ((k - 1) % PerInstance) + 1

Mapped(inst) ==
    /\ inst.class \in DOMAIN DBMaxConnections
    /\ inst.groups # << >>
    /\ inst.groups[1] \in DOMAIN DBMaxConnections[inst.class]

\* g * 1,073,741,824 as an unbounded integer, in limbs: g * 2^14 * 2^16.
ExactBytes(g) == << 0, (g * 2^14) % Limb, (g * 2^14) \div Limb, 0 >>

\* C1: a poll in which a call failed has returned at that call: nothing was
\* written to its channel, the failed call is its last call, every earlier call
\* succeeded, and the error counter stands exactly 1 above its value at the
\* start of the poll.
FailFast ==
    \A p \in PollIds :
        SomeCallFailed(p) =>
            /\ pc[p] = "failed"
            /\ ch[p] = << >>
            /\ Len(calls[p]) = Len(resps[p])
            /\ \A k \in 1..Len(resps[p]) : resps[p][k].err <=> k = Len(resps[p])
            /\ errors = base[p].errors + 1

FailFastWitness ==
    /\ pc[1] = "failed"
    /\ Len(calls[1]) = 2
    /\ instances[1] # << >>
    /\ base[1].errors = 1

\* C2: the first call carries no marker; every later call carries the marker
\* of the response before it; no call follows a response without marker; all
\* calls of a poll are answered before its first observation is written, and
\* by then the instances of all pages are accumulated in page order.
PaginationProtocol ==
    \A p \in PollIds :
        /\ Len(resps[p]) <= Len(calls[p])
        /\ Len(calls[p]) <= Len(resps[p]) + 1
        /\ Len(calls[p]) >= 1 => calls[p][1] = Nil
        /\ \A k \in 2..Len(calls[p]) :
              /\ ~resps[p][k - 1].err
              /\ resps[p][k - 1].marker # Nil
              /\ calls[p][k] = resps[p][k - 1].marker
        /\ \A k \in 1..Len(resps[p]) :
              resps[p][k].marker = Nil => Len(calls[p]) = k
        /\ (ch[p] # << >> \/ pc[p] \in Emitting \cup {"done", "panicked"}) =>
              /\ Len(calls[p]) >= 1
              /\ Len(resps[p]) = Len(calls[p])
              /\ ~resps[p][Len(resps[p])].err
              /\ resps[p][Len(resps[p])].marker = Nil
              /\ instances[p] = FlattenPages(resps[p])

PaginationWitness ==
    /\ pc[1] = "done"
    /\ Len(calls[1]) = 2
    /\ resps[1][1].marker = "m2"
    /\ resps[1][1].page = << IHit, IUnknownClass >>
    /\ resps[1][2].page = << IUnknownGroup >>
    /\ Len(ch[1]) = 3 * PerInstance

\* C3: requests counts the calls attempted and errors the calls that failed, so
\* errors <= requests; a poll adds at most 1 to errors; no step lowers a counter.
CountersInv ==
    /\ requests = attempted
    /\ errors = failed
    /\ errors <= requests
    /\ \A p \in PollIds :
          /\ Cardinality({k \in 1..Len(resps[p]) : resps[p][k].err}) <= 1
          /\ pc[p] # "idle" => errors - base[p].errors <= 1

CounterAccounting ==
    /\ []CountersInv
    /\ [][requests' >= requests /\ errors' >= errors]_vars

CounterWitness ==
    /\ started = 2
    /\ requests = 4
    /\ errors = 2
    /\ pc[1] = "failed"

\* C4: when a poll whose calls all succeeded has ended, its channel holds, for
\* every accumulated instance, exactly one observation of each metric of
\* Describe and nothing else, with publiclyaccessible and storageencrypted
\* valued 1 for a true flag and 0 for a false one.
Completeness ==
    \A p \in PollIds :
        pc[p] \in {"done", "panicked"} =>
            /\ Len(ch[p]) = PerInstance * Len(instances[p])
            /\ \A i \in 1..Len(instances[p]) :
                  LET slice == {k \in 1..Len(ch[p]) : PositionOf(k) = i}
                  IN  /\ \A j \in 1..Len(Describe) :
                            Cardinality({k \in slice : ch[p][k].metric = Describe[j].name}) = 1
                      /\ \A k \in slice :
                            /\ ch[p][k].labels[2] = instances[p][i].id
                            /\ ch[p][k].metric = "rds_publiclyaccessible" =>
                                  ch[p][k].value = IF instances[p][i].public THEN 1 ELSE 0
                            /\ ch[p][k].metric = "rds_storageencrypted" =>
                                  ch[p][k].value = IF instances[p][i].encrypted THEN 1 ELSE 0

\* C5: when a poll whose calls all succeeded has ended, its channel holds, for
\* every accumulated instance that has a first parameter group, a
\* maxconnections_error of 0 and a maxconnections of DBMaxConnections[C][P] when
\* the table maps (C, P), and a maxconnections_error of 1 and a maxconnections
\* of 0 when it does not.
LookupEmitted ==
    \A p \in PollIds :
        pc[p] \in {"done", "panicked"} =>
            \A i \in 1..Len(instances[p]) :
                LET inst == instances[p][i]
                    slice == {k \in 1..Len(ch[p]) : PositionOf(k) = i}
                IN  inst.groups # << >> =>
                        /\ \E k \in slice :
                              /\ ch[p][k].metric = "rds_maxconnections_error"
                              /\ ch[p][k].value = IF Mapped(inst) THEN 0 ELSE 1
                        /\ \E k \in slice :
                              /\ ch[p][k].metric = "rds_maxconnections"
                              /\ ch[p][k].value = IF Mapped(inst)
                                                  THEN DBMaxConnections[inst.class][inst.groups[1]]
                                                  ELSE 0

\* The part of C5 that the code keeps: every maxconnections_error and
\* maxconnections observation written has the value of the lookup for its instance.
LookupValues ==
    \A p \in PollIds :
        \A k \in 1..Len(ch[p]) :
            LET inst == instances[p][PositionOf(k)]
            IN  /\ ch[p][k].metric = "rds_maxconnections_error" =>
                      ch[p][k].value = IF Mapped(inst) THEN 0 ELSE 1
                /\ ch[p][k].metric = "rds_maxconnections" =>
                      ch[p][k].value = IF Mapped(inst)
                                       THEN DBMaxConnections[inst.class][inst.groups[1]]
                                       ELSE 0

\* C6: no poll ends in a panic.
NoPanic == \A p \in PollIds : pc[p] # "panicked"

\* C7: every started poll eventually returns, to completion or to failure, given
\* that every call is answered and the listing ends: a started poll that has not
\* returned can take its next step.
PollReturnsOrSteps ==
    pc[1] \in {"idle"} \cup Returned \/ ENABLED Step(1, Pages, Markers)

\* The same as a liveness property, for the fair specification.
PollEventuallyReturns ==
    (pc[1] \in Fetching \cup Emitting) ~> (pc[1] \in Returned)

\* The part of C7 that the code keeps: the fetch loop ends, and no call follows
\* an error or a page without marker.
FetchLoopEnds ==
    /\ (pc[1] \in Fetching) ~> (pc[1] \notin Fetching)
    /\ [][pc[1] \in Emitting \cup Ended => calls'[1] = calls[1] \/ pc'[1] = "loop"]_vars

\* C8: every allocatedstorage observation is valued g * 1,073,741,824 for the
\* AllocatedStorage g of its instance, not negative and not rounded; 65536 GiB
\* gives 70,368,744,177,664 = 16384 * 2^32; a poll of one instance that has
\* returned has written the observation.
StorageExact ==
    \A p \in PollIds :
        /\ \A k \in 1..Len(ch[p]) :
              ch[p][k].metric = "rds_allocatedstorage" =>
                  LET g == instances[p][PositionOf(k)].storage
                  IN  /\ ch[p][k].value = [neg |-> FALSE, mag |-> ExactBytes(g)]
                      /\ g = 65536 => ch[p][k].value.mag = << 0, 0, 16384, 0 >>
        /\ pc[p] = "done" =>
              \A i \in 1..Len(instances[p]) :
                  \E k \in 1..Len(ch[p]) :
                      /\ PositionOf(k) = i
                      /\ ch[p][k].metric = "rds_allocatedstorage"

StorageWitness ==
    /\ pc[1] = "done"
    /\ Len(instances[1]) = 1
    /\ instances[1][1].storage = 65536
    /\ \E k \in 1..Len(ch[1]) :
          /\ ch[1][k].metric = "rds_allocatedstorage"
          /\ ch[1][k].value.mag = << 0, 0, 16384, 0 >>

\* What a poll running alone writes for one instance and for a list of
\* instances: nothing for an instance whose lookup panics, everything but the
\* last observation for one without LatestRestorableTime, and nothing after either.
ObservationsBeforeLast(inst) ==
    << Metric(Descs.MaxConnectionsMappingError, "gauge", IF Mapped(inst) THEN 0 ELSE 1,
              << Region, inst.id, inst.class >>),
       Metric(Descs.PubliclyAccessible, "gauge", IF inst.public THEN 1 ELSE 0,
              << Region, inst.id >>),
       Metric(Descs.StorageEncrypted, "gauge", IF inst.encrypted THEN 1 ELSE 0,
              << Region, inst.id >>),
       Metric(Descs.MaxConnections, "gauge",
              IF Mapped(inst) THEN DBMaxConnections[inst.class][inst.groups[1]] ELSE 0,
              << Region, inst.id >>),
       Metric(Descs.AllocatedStorage, "gauge", [neg |-> FALSE, mag |-> ExactBytes(inst.storage)],
              << Region, inst.id >>),
       Metric(Descs.DBInstanceStatus, "gauge", 1, << Region, inst.id, inst.status >>),
       Metric(Descs.EngineVersion, "gauge", 1,
              << Region, inst.id, inst.engine, inst.engineVersion >>),
       Metric(Descs.DBInstanceClass, "gauge", 1, << Region, inst.id, inst.class >>) >>

AloneOne(inst) ==
    IF inst.class \in DOMAIN DBMaxConnections /\ inst.groups = << >> THEN << >>
    ELSE IF inst.restorable = << >> THEN ObservationsBeforeLast(inst)
    ELSE Append(ObservationsBeforeLast(inst),
                Metric(Descs.LatestRestorableTime, "counter", inst.restorable[1],
                       << Region, inst.id >>))

RECURSIVE Alone(_)
Alone(insts) ==
    IF insts = << >> THEN << >>
    ELSE LET first == AloneOne(Head(insts))
         IN  IF Len(first) < PerInstance THEN first ELSE first \o Alone(Tail(insts))

IsPrefix(s, t) == Len(s) <= Len(t) /\ s = SubSeq(t, 1, Len(s))

\* The state of one invocation.
Local(p) == << pc[p], input[p], instances[p], idx[p], maxConnections[p], ch[p],
               calls[p], resps[p], base[p] >>

\* C9: with the steps of two polls interleaved, each poll's first call carries
\* no marker and each later call the marker of its own previous response; its
\* instances are those of its own responses; what it has written is a prefix
\* of, and once it has ended is exactly, what it writes alone on those
\* responses; and a step of one poll leaves the other poll's state unchanged.
OwnPoll ==
    \A p \in PollIds :
        /\ Len(calls[p]) >= 1 => calls[p][1] = Nil
        /\ \A k \in 2..Len(calls[p]) : calls[p][k] = resps[p][k - 1].marker
        /\ instances[p] = FlattenPages(resps[p])
        /\ LET alone == Alone(instances[p])
           IN  /\ IsPrefix(ch[p], alone)
               /\ pc[p] \in {"done", "panicked"} => ch[p] = alone

Independence ==
    /\ []OwnPoll
    /\ [][\A p, q \in PollIds :
              (p # q /\ Local(p)' # Local(p)) => Local(q)' = Local(q)]_vars

\* Both polls are under way at once, each on its second page.
IndependenceWitness ==
    /\ pc[1] = "wait"
    /\ Len(calls[1]) = 2
    /\ calls[1][2] = "m1"
    /\ pc[2] \in Emitting
    /\ Len(calls[2]) = 2
    /\ calls[2][2] = "m2"
    /\ Len(ch[2]) > PerInstance
    /\ requests = 4

\* C10: the k-th observation of a poll is about the instance at position
\* ((k-1) div 9) + 1 of the pages in the order the API returned them, so the
\* observations of one position all come before those of the next; the first
\* observation of a position is maxconnections_error and the ninth
\* latestrestorabletime; a poll that has returned without failure has written
\* nine observations per returned instance, duplicates included.
EmissionOrder ==
    \A p \in PollIds :
        LET returned == FlattenPages(resps[p])
        IN  /\ \A k \in 1..Len(ch[p]) :
                  /\ PositionOf(k) <= Len(returned)
                  /\ ch[p][k].labels[2] = returned[PositionOf(k)].id
                  /\ PlaceOf(k) = 1 => ch[p][k].metric = "rds_maxconnections_error"
                  /\ PlaceOf(k) = PerInstance => ch[p][k].metric = "rds_latestrestorabletime"
                  /\ ch[p][k].metric = "rds_maxconnections_error" => PlaceOf(k) = 1
                  /\ ch[p][k].metric = "rds_latestrestorabletime" => PlaceOf(k) = PerInstance
            /\ pc[p] = "done" => Len(ch[p]) = PerInstance * Len(returned)

EmissionOrderWitness ==
    /\ pc[1] = "done"
    /\ Len(resps[1]) = 2
    /\ resps[1][1].page = << IHit, IUnknownClass >>
    /\ resps[1][2].page = << INoGroupsUnknown, IHit >>
    /\ Len(ch[1]) = 4 * PerInstance
    /\ ch[1][1].labels[2] = "a"
    /\ ch[1][PerInstance + 1].labels[2] = "b"
    /\ ch[1][3 * PerInstance + 1].labels[2] = "a"

====
